---- MODULE Spec2Model ----
(***************************************************************************)
(* The delta pipeline of bsdiff-rust: BsdiffRust::diff_optimized and       *)
(* BsdiffRust::patch_optimized (src/src/bsdiff_rust.rs) and the utilities  *)
(* verify_patch, get_patch_info, get_file_size, get_compression_ratio      *)
(* (src/src/utils.rs), over a filesystem of directory entries and inodes.  *)
(*                                                                         *)
(* A call is taken through the statements of its function one at a time    *)
(* (pc), so that the states between two statements, and the interleavings  *)
(* of two calls, are states of the model.                                  *)
(***************************************************************************)
EXTENDS Integers, Sequences, FiniteSets, TLC

VARIABLES
    fs,       \* directory entries: path -> [kind, ino], existing paths only
    inodes,   \* live inodes: ino -> [data, hole]
    pc,       \* pc[p]: the statement process p is at
    call,     \* call[p]: the operation p runs and its arguments
    st,       \* st[p]: the local variables of the running function
    result,   \* result[p]: what the call returned
    pre,      \* pre[p]: the filesystem as it was when the call started
    prev,     \* the call that returned last, with the bytes it read and left
    quota,    \* quota[p]: calls p may still start
    mode      \* which callers exist: "seq", "conc" or "ratio"

vars == <<fs, inodes, pc, call, st, result, pre, prev, quota, mode>>

(***************************************************************************)
(* Bounds of the model.                                                    *)
(***************************************************************************)
\* Longest content of an input file in the initial filesystem.
MaxLen == 1
\* Calls one caller makes one after the other.
MaxCalls == 2
\* Width of the u64 of the model, in bits (u64 arithmetic is taken % 2^SizeBits).
SizeBits == 8
\* The length the filesystem reports for a directory.
DirLen == 4

Procs == {1, 2}

Min(a, b) == IF a < b THEN a ELSE b

RECURSIVE Pow2(_)
Pow2(n) == IF n = 0 THEN 1 ELSE 2 * Pow2(n - 1)

\* A byte is 0..255; the input files hold bytes of InputBytes.
ByteMod == Pow2(8)
InputBytes == {1, 2}

RECURSIVE SeqsUpTo(_, _)
SeqsUpTo(S, n) ==
    IF n = 0 THEN {<<>>}
    ELSE LET shorter == SeqsUpTo(S, n - 1)
         IN  shorter \cup {Append(s, b) : s \in {t \in shorter : Len(t) = n - 1}, b \in S}

Inputs == SeqsUpTo(InputBytes, MaxLen)

Take(s, n) == SubSeq(s, 1, Min(n, Len(s)))
Drop(s, n) == SubSeq(s, n + 1, Len(s))

(***************************************************************************)
(* The external delta algorithm (crate bsdiff) and the compressed          *)
(* transport (crate zstd), as the pipeline uses them.  A result is         *)
(* [ok |-> TRUE, val |-> bytes] or [ok |-> FALSE, err |-> kind].           *)
(***************************************************************************)
Ok(v) == [ok |-> TRUE, val |-> v, err |-> ""]
Err(e) == [ok |-> FALSE, val |-> <<>>, err |-> e]

\* bsdiff::diff(old, new, writer): the delta is a sequence of records, each a
\* control triple (add length, copy length, seek) followed by the add bytes
\* (new - old, byte by byte) and the copy bytes; no header, no total length.
\* An empty new file gives no record at all.
BsDiff(old, new) ==
    IF new = <<>> THEN <<>>
    ELSE LET add == Min(Len(old), Len(new))
         IN  <<add, Len(new) - add, 0>>
             \o [i \in 1..add |-> (new[i] - old[i] + ByteMod) % ByteMod]
             \o SubSeq(new, add + 1, Len(new))

\* A control value is sign-magnitude: the top bit is the sign.
OffT(b) == IF b >= ByteMod \div 2 THEN -(b - ByteMod \div 2) ELSE b

\* bsdiff::patch(old, reader, new): records are applied until the reader is
\* at its end; a record cut short, or one that reads outside old, is an error.
RECURSIVE BsPatchFrom(_, _, _, _)
BsPatchFrom(old, delta, oldpos, new) ==
    IF delta = <<>> THEN Ok(new)
    ELSE IF Len(delta) < 3 THEN Err("DeltaApplyError")
    ELSE LET add  == OffT(delta[1])
             copy == OffT(delta[2])
             seek == OffT(delta[3])
         IN  IF \/ add < 0 \/ copy < 0
                \/ Len(delta) < 3 + add + copy
                \/ oldpos < 0 \/ oldpos + add > Len(old)
             THEN Err("DeltaApplyError")
             ELSE BsPatchFrom(old, Drop(delta, 3 + add + copy), oldpos + add + seek,
                      new \o [i \in 1..add |-> (old[oldpos + i] + delta[3 + i]) % ByteMod]
                          \o SubSeq(delta, 3 + add + 1, 3 + add + copy))

BsPatch(old, delta) == BsPatchFrom(old, delta, 0, <<>>)

\* A zstd frame: the magic number, the length of the content, the content.
\* (The compression level changes how well a block is packed, which the
\* model does not tell apart: the frame is the same at every level.)
ZstdMagic == <<40>>

ZstdEncode(level, data) == ZstdMagic \o <<Len(data)>> \o data

\* zstd's Decoder reads frame after frame to the end of the input; an input
\* that ends inside a frame (the empty input too) is "incomplete frame", a
\* frame that does not start with the magic number is rejected.
RECURSIVE ZstdDecodeFrom(_, _)
ZstdDecodeFrom(z, out) ==
    IF Len(z) < 2 THEN Err("CorruptPatch")
    ELSE IF Take(z, 1) # ZstdMagic THEN Err("CorruptPatch")
    ELSE IF Len(z) - 2 < z[2] THEN Err("CorruptPatch")
    ELSE IF Len(z) - 2 = z[2] THEN Ok(out \o Drop(z, 2))
    ELSE ZstdDecodeFrom(Drop(z, 2 + z[2]), out \o SubSeq(z, 3, 2 + z[2]))

ZstdDecode(z) == ZstdDecodeFrom(z, <<>>)

(***************************************************************************)
(* The filesystem.  A path is a directory and a name in it; a directory    *)
(* entry names an inode, and a file handle or a memory map keeps naming    *)
(* its inode after the entry is renamed or replaced.                       *)
(***************************************************************************)
Path(d, n) == [dir |-> d, name |-> n]
NoPath == Path("", "")

\* BsdiffRust::get_fast_temp_dir(): the directory itself depends on the
\* platform only (/dev/shm, a RAM volume, or env::temp_dir()).
get_fast_temp_dir == "tmp"

\* The device a directory is on: rename(2) works within one device only.
Device(d) == IF d = "b" THEN "disk" ELSE "mem"

NoEnt == [kind |-> "none", ino |-> 0]
DirEnt == [kind |-> "dir", ino |-> 0]
FileEnt(i) == [kind |-> "file", ino |-> i]

Lookup(f, path) == IF path \in DOMAIN f THEN f[path] ELSE NoEnt

\* Path::exists()
Exists(f, path) == Lookup(f, path).kind # "none"

Inode(data) == [data |-> data, hole |-> 0]
\* A sparse file: `hole` bytes the file has and no block holds.
Sparse(n) == [data |-> <<>>, hole |-> n]

Zeros(n) == [i \in 1..n |-> 0]
Contents(node) == node.data \o Zeros(node.hole)
\* Metadata::len()
FileLen(node) == Len(node.data) + node.hole

\* write(2) of `bytes` at offset `off` of a file holding `content`.
Overlay(content, off, bytes) ==
    LET padded == IF Len(content) < off
                  THEN content \o Zeros(off - Len(content)) ELSE content
    IN  Take(padded, off) \o bytes \o Drop(padded, off + Len(bytes))

WriteAt(ino, i, off, bytes) ==
    IF bytes = <<>> THEN ino
    ELSE [ino EXCEPT ![i] = Inode(Overlay(Contents(ino[i]), off, bytes))]

\* The smallest inode number not in use.
FreshIno(ino) ==
    CHOOSE i \in 1..(Cardinality(DOMAIN ino) + 1) :
        /\ i \notin DOMAIN ino
        /\ \A j \in 1..(i - 1) : j \in DOMAIN ino

NoMap == [ino |-> 0, len |-> 0]

\* The inodes a directory entry, an open file or a memory map still names.
Referenced(f, s) ==
    ({f[q].ino : q \in DOMAIN f}
        \cup {s[p].old_mmap.ino : p \in Procs}
        \cup {s[p].new_mmap.ino : p \in Procs}
        \cup {s[p].writer : p \in Procs}) \ {0}

\* An inode nothing names is freed.
Collect(f, ino, s) == [i \in (DOMAIN ino) \cap Referenced(f, s) |-> ino[i]]

\* What a reader of the filesystem sees: each existing path with its bytes.
NoFile == [kind |-> "none", data |-> <<>>, hole |-> 0]
View(f, ino) ==
    [q \in DOMAIN f |->
        IF f[q].kind = "file"
        THEN [kind |-> "file", data |-> ino[f[q].ino].data, hole |-> ino[f[q].ino].hole]
        ELSE [kind |-> "dir", data |-> <<>>, hole |-> 0]]
ViewAt(v, path) == IF path \in DOMAIN v THEN v[path] ELSE NoFile

\* The bytes at `path` now (<<>> when it is no file).
FileData(path) == ViewAt(View(fs, inodes), path).data

(***************************************************************************)
(* Calls, locals and results.                                              *)
(***************************************************************************)
\* A default that writes in place.
DefaultConfig_in_place == [compression_level |-> 3, use_fast_temp_dir |-> FALSE]

\* OptimizationConfig::default()
DefaultConfig == [compression_level |-> 3, use_fast_temp_dir |-> TRUE]

Invoke(op, old, new, patch, level, fast) ==
    [op |-> op, old |-> old, new |-> new, patch |-> patch, level |-> level, fast |-> fast]
NoCall == Invoke("none", NoPath, NoPath, NoPath, 0, FALSE)

\* The call BsdiffRust::diff / BsdiffRust::patch makes of diff_optimized /
\* patch_optimized: the arguments of c, &OptimizationConfig::default(); `via`
\* keeps the entry point the caller used.
WithDefault(c, op) ==
    [op |-> op, old |-> c.old, new |-> c.new, patch |-> c.patch,
     level |-> DefaultConfig.compression_level,
     fast |-> DefaultConfig.use_fast_temp_dir, via |-> c.op]

\* The locals of diff_optimized / patch_optimized / write_patched_data.
\*   old_mmap, new_mmap : the memory maps (inode and mapped length)
\*   old_bytes, new_bytes : the bytes read through the maps (patch: the patch bytes)
\*   output_path : the staged path
\*   writer, offset : the open output file and its file offset
\*   stream : output bytes the encoder and the BufWriter still hold
\*   new_data : the decoded new file (patch)
InitLocals ==
    [old_mmap |-> NoMap, new_mmap |-> NoMap, old_bytes |-> <<>>, new_bytes |-> <<>>,
     output_path |-> NoPath, writer |-> 0, offset |-> 0, stream |-> <<>>,
     new_data |-> <<>>]

\* A function that returned has dropped its maps and its file.
Closed(l) == [l EXCEPT !.old_mmap = NoMap, !.new_mmap = NoMap, !.writer = 0,
                       !.offset = 0, !.stream = <<>>]

NoVal == [flag |-> FALSE, old_size |-> 0, new_size |-> 0, patch_size |-> 0,
          ratio |-> <<0, 1>>, size |-> 0, compressed |-> FALSE]
NoResult == [kind |-> "none", err |-> "", at |-> "", val |-> NoVal]
Success(v) == [kind |-> "ok", err |-> "", at |-> "", val |-> v]
Failure(e, at) == [kind |-> "err", err |-> e, at |-> at, val |-> NoVal]
\* The process was killed (SIGBUS on a map of a truncated file), or panicked.
Crash(e, at) == [kind |-> "crash", err |-> e, at |-> at, val |-> NoVal]

NoPrev == [call |-> NoCall, oldb |-> <<>>, newb |-> <<>>, out |-> NoFile]

\* An I/O system call either works or fails (EIO, ENOSPC, ENOMEM, EACCES ...).
IoOutcomes == {"ok", "io"}

\* The function returns r with the filesystem (f, ino); the locals are dropped.
Returns(p, r, f, ino) ==
    /\ pc' = [pc EXCEPT ![p] = IF r.kind = "ok" THEN "done"
                               ELSE IF r.kind = "err" THEN "failed" ELSE "crashed"]
    /\ result' = [result EXCEPT ![p] = r]
    /\ st' = [st EXCEPT ![p] = Closed(st[p])]
    /\ fs' = f
    /\ inodes' = Collect(f, ino, [st EXCEPT ![p] = Closed(st[p])])

\* The function goes on at statement `next` with locals l.
Goes(p, next, l, f, ino) ==
    /\ pc' = [pc EXCEPT ![p] = next]
    /\ st' = [st EXCEPT ![p] = l]
    /\ fs' = f
    /\ inodes' = ino
    /\ UNCHANGED result

(***************************************************************************)
(* BsdiffRust: the helpers.                                                *)
(***************************************************************************)
\* Path::file_name(): None ("") for a path that ends in "..".
file_name(path) == IF path.name = ".." THEN "" ELSE path.name

\* get_optimal_output_path naming the staged file from the whole path.
get_optimal_output_path_of_whole_path(original_path, use_fast_temp) ==
    IF use_fast_temp
    THEN IF file_name(original_path) = ""
         THEN Err("InvalidPath")
         ELSE Ok(Path(get_fast_temp_dir,
                      "bsdiff_" \o original_path.dir \o "_" \o file_name(original_path)))
    ELSE Ok(original_path)

\* BsdiffRust::get_optimal_output_path
get_optimal_output_path(original_path, use_fast_temp) ==
    IF use_fast_temp
    THEN IF file_name(original_path) = ""
         THEN Err("InvalidPath")
         ELSE Ok(Path(get_fast_temp_dir, "bsdiff_" \o file_name(original_path)))
    ELSE Ok(original_path)

\* File::create(path): the file is created, or truncated if it exists; the
\* handle names its inode.
FileCreate(f, ino, path) ==
    LET ent == Lookup(f, path)
    IN  IF ent.kind = "file"
        THEN [fs |-> f, inodes |-> [ino EXCEPT ![ent.ino] = Inode(<<>>)], fd |-> ent.ino]
        ELSE LET i == FreshIno(ino)
             IN  [fs |-> (path :> FileEnt(i)) @@ f,
                  inodes |-> (i :> Inode(<<>>)) @@ ino, fd |-> i]

\* A rename that copies: `to` gets the file and `from` keeps it.
Rename_keeps_source(f, from, to) ==
    LET src == Lookup(f, from)
        dst == Lookup(f, to)
    IN  IF \/ src.kind = "none"
           \/ Device(from.dir) # Device(to.dir)
           \/ (dst.kind # "none" /\ dst.kind # src.kind)
        THEN [ok |-> FALSE, fs |-> f]
        ELSE [ok |-> TRUE,
              fs |-> [q \in (DOMAIN f) \cup {to} |-> IF q = to THEN src ELSE f[q]]]

\* std::fs::rename(from, to): [ok, fs].  Fails when `from` does not exist
\* (ENOENT), when the two are on different devices (EXDEV), and when a file
\* is renamed onto a directory or a directory onto a file.
Rename(f, from, to) ==
    LET src == Lookup(f, from)
        dst == Lookup(f, to)
    IN  IF \/ src.kind = "none"
           \/ Device(from.dir) # Device(to.dir)
           \/ (dst.kind # "none" /\ dst.kind # src.kind)
        THEN [ok |-> FALSE, fs |-> f]
        ELSE [ok |-> TRUE,
              fs |-> [q \in ((DOMAIN f) \ {from}) \cup {to} |->
                         IF q = to THEN src ELSE f[q]]]

\* finalize_output without its rename: the staged file is never moved.
finalize_output_no_rename(f, temp_path, final_path) == [ok |-> TRUE, fs |-> f]

\* BsdiffRust::finalize_output: [ok, fs]
finalize_output(f, temp_path, final_path) ==
    IF temp_path # final_path
    THEN Rename(f, temp_path, final_path)
    ELSE [ok |-> TRUE, fs |-> f]

\* What a read through memory map m can give.  The map was made of the whole
\* file; if the file has been truncated since, the pages past its end are not
\* there: the access is killed by SIGBUS or, inside the last page of a file
\* that still has one, reads zeros.
MapReads(ino, m) ==
    LET cur == Contents(ino[m.ino])
    IN  IF Len(cur) >= m.len THEN {Ok(Take(cur, m.len))}
        ELSE IF cur = <<>> THEN {Err("SIGBUS")}
        ELSE {Err("SIGBUS"), Ok(cur \o Zeros(m.len - Len(cur)))}

(***************************************************************************)
(* The callers.                                                            *)
(***************************************************************************)
Levels == {DefaultConfig.compression_level}

aO == Path("a", "o")
aN == Path("a", "n")
aP == Path("a", "p")
aG == Path("a", "g")
aD == Path("a", "d")
aM == Path("a", "m")
bO == Path("b", "o")
bN == Path("b", "n")
bP == Path("b", "p")
\* The staged path of a/p and b/p when the fast temp dir is used.
tP == Path(get_fast_temp_dir, "bsdiff_p")
\* A path that ends in "..": the directory above a, with no file name.
aU == Path("a", "..")

\* The calls of the one caller of Spec: a/o and a/n are the input files, a/d
\* is a directory, a/m does not exist, a/p and b/p are patch files and a/g
\* is the file a patch is applied into; tmp/bsdiff_p is a copy of the old
\* file that lies in the fast temp dir.
SeqMenu ==
    {Invoke("diff_optimized", old, new, patch, level, fast) :
        old \in {aO, aD, aM, tP}, new \in {aN, aM}, patch \in {aP, bP, aU},
        level \in Levels, fast \in BOOLEAN}
    \cup {Invoke("patch_optimized", old, new, patch, level, fast) :
        old \in {aO, aM}, new \in {aG, aN}, patch \in {aP, bP, aM, aN},
        level \in Levels, fast \in BOOLEAN}
    \cup {Invoke("verify_patch", old, new, patch, 0, FALSE) :
        old \in {aO, aD, aM}, new \in {aN, aO, aM}, patch \in {aP, aM}}
    \cup {Invoke("get_compression_ratio", old, new, patch, 0, FALSE) :
        old \in {aO, aM}, new \in {aN, aD}, patch \in {aP, aM}}
    \cup {Invoke("get_patch_info", NoPath, NoPath, patch, 0, FALSE) : patch \in {aP, aM}}
    \cup {Invoke("check_file_access", path, NoPath, NoPath, 0, FALSE) : path \in {aO, aD, aM}}
    \cup {Invoke("diff", aO, aN, aP, 0, FALSE), Invoke("patch", aO, aG, aP, 0, FALSE)}

\* The calls of the two callers of SpecConc: each works on the files of its
\* own directory, and the two patch files have the same base name.
ConcMenu(p) ==
    LET d == IF p = 1 THEN "a" ELSE "b"
    IN  {Invoke("diff_optimized", Path(d, "o"), Path(d, "n"), Path(d, "p"), level, fast) :
            level \in Levels, fast \in BOOLEAN}
        \cup {Invoke("patch_optimized", Path(d, "o"), Path(d, "p"), Path(d, "q"), level, fast) :
            level \in Levels, fast \in BOOLEAN}
        \cup {Invoke("verify_patch", Path(d, "o"), Path(d, "n"), Path(d, "q"), 0, FALSE),
              Invoke("get_compression_ratio", Path(d, "o"), Path(d, "n"), Path(d, "q"), 0, FALSE),
              Invoke("get_patch_info", NoPath, NoPath, Path(d, "q"), 0, FALSE),
              Invoke("check_file_access", Path(d, "o"), NoPath, NoPath, 0, FALSE),
              Invoke("diff", Path(d, "o"), Path(d, "n"), Path(d, "p"), 0, FALSE),
              Invoke("patch", Path(d, "o"), Path(d, "p"), Path(d, "q"), 0, FALSE)}

\* The call of SpecRatio.
RatioMenu == {Invoke("get_compression_ratio", aO, aN, aP, 0, FALSE)}

Menu(p) == IF mode = "seq" THEN SeqMenu ELSE IF mode = "conc" THEN ConcMenu(p) ELSE RatioMenu

\* The first statement of each operation.
Entry(op) ==
    CASE op = "diff_optimized" -> "validate_files"
      [] op = "patch_optimized" -> "validate_patch_files"
      [] OTHER -> op

\* The path the operation declares as its output.
FinalPath(c) == IF c.op = "diff_optimized" THEN c.patch ELSE c.new

Init ==
    /\ mode = "seq"
    /\ \E O \in Inputs, N \in Inputs :
          /\ fs = (aO :> FileEnt(1)) @@ (aN :> FileEnt(2)) @@ (tP :> FileEnt(3))
                  @@ (aD :> DirEnt) @@ (aU :> DirEnt)
          /\ inodes = (1 :> Inode(O)) @@ (2 :> Inode(N)) @@ (3 :> Inode(O))
    /\ pc = [p \in Procs |-> "idle"]
    /\ call = [p \in Procs |-> NoCall]
    /\ st = [p \in Procs |-> InitLocals]
    /\ result = [p \in Procs |-> NoResult]
    /\ pre = [p \in Procs |-> <<>>]
    /\ prev = NoPrev
    /\ quota = [p \in Procs |-> IF p = 1 THEN MaxCalls ELSE 0]

(***************************************************************************)
(* The operations, statement by statement.                                 *)
(***************************************************************************)
\* A caller starts an operation.
Call(p) ==
    /\ pc[p] = "idle"
    /\ quota[p] > 0
    /\ \E c \in Menu(p) :
          /\ call' = [call EXCEPT ![p] = c]
          /\ pc' = [pc EXCEPT ![p] = Entry(c.op)]
    /\ pre' = [pre EXCEPT ![p] = View(fs, inodes)]
    /\ quota' = [quota EXCEPT ![p] = @ - 1]
    /\ UNCHANGED <<fs, inodes, st, result, prev, mode>>

\* BsdiffRust::diff: Self::diff_optimized(old_file, new_file, patch_file,
\* &OptimizationConfig::default())
Diff(p) ==
    /\ pc[p] = "diff"
    /\ call' = [call EXCEPT ![p] = WithDefault(call[p], "diff_optimized")]
    /\ pc' = [pc EXCEPT ![p] = Entry("diff_optimized")]
    /\ UNCHANGED <<fs, inodes, st, result, pre, prev, quota, mode>>

\* BsdiffRust::patch: Self::patch_optimized(old_file, new_file, patch_file,
\* &OptimizationConfig::default())
Patch(p) ==
    /\ pc[p] = "patch"
    /\ call' = [call EXCEPT ![p] = WithDefault(call[p], "patch_optimized")]
    /\ pc' = [pc EXCEPT ![p] = Entry("patch_optimized")]
    /\ UNCHANGED <<fs, inodes, st, result, pre, prev, quota, mode>>

\* BsdiffRust::validate_files: [ok, err]
validate_files(f, old_file, new_file) ==
    IF ~Exists(f, old_file) THEN Err("NotFound")
    ELSE IF ~Exists(f, new_file) THEN Err("NotFound")
    ELSE Ok(<<>>)

\* diff_optimized: Self::validate_files(old_file, new_file)?
ValidateFiles(p) ==
    /\ pc[p] = "validate_files"
    /\ LET r == validate_files(fs, call[p].old, call[p].new)
       IN  IF r.ok THEN Goes(p, "create_memory_maps", st[p], fs, inodes)
           ELSE Returns(p, Failure(r.err, "validate_files"), fs, inodes)
    /\ UNCHANGED <<call, pre, prev, quota, mode>>

\* File::open(path) then MmapOptions::map: the map of the whole file, [ok, val, err].
\* A path that is gone is NotFound; a directory opens and cannot be mapped.
OpenAndMap(f, ino, path, io) ==
    LET ent == Lookup(f, path)
    IN  IF ent.kind = "none" THEN Err("NotFound")
        ELSE IF ent.kind = "dir" \/ io # "ok" THEN Err("IoError")
        ELSE Ok([ino |-> ent.ino, len |-> FileLen(ino[ent.ino])])

\* BsdiffRust::create_memory_maps: both files are opened, then both mapped.
CreateMemoryMaps(p) ==
    /\ pc[p] = "create_memory_maps"
    /\ \E io \in IoOutcomes :
          LET o == OpenAndMap(fs, inodes, call[p].old, io)
              n == OpenAndMap(fs, inodes, call[p].new, io)
              e == IF o.err = "NotFound" \/ n.ok THEN o.err
                   ELSE IF n.err = "NotFound" \/ o.ok THEN n.err ELSE o.err
          IN  IF o.ok /\ n.ok
              THEN Goes(p, "get_optimal_output_path",
                        [st[p] EXCEPT !.old_mmap = o.val, !.new_mmap = n.val], fs, inodes)
              ELSE Returns(p, Failure(e, "create_memory_maps"), fs, inodes)
    /\ UNCHANGED <<call, pre, prev, quota, mode>>

\* diff_optimized / write_patched_data: Self::get_optimal_output_path(..)?
GetOptimalOutputPath(p) ==
    /\ pc[p] = "get_optimal_output_path"
    /\ LET r == get_optimal_output_path(FinalPath(call[p]), call[p].fast)
       IN  IF r.ok
           THEN Goes(p, "file_create", [st[p] EXCEPT !.output_path = r.val], fs, inodes)
           ELSE Returns(p, Failure(r.err, "get_optimal_output_path"), fs, inodes)
    /\ UNCHANGED <<call, pre, prev, quota, mode>>

\* create_zstd_encoder / write_patched_data: File::create(&output_path)? under a
\* BufWriter.  Creating fails on a directory, and when the system call fails.
CreateOutput(p) ==
    /\ pc[p] = "file_create"
    /\ \E io \in IoOutcomes :
          IF io # "ok" \/ Lookup(fs, st[p].output_path).kind = "dir"
          THEN Returns(p, Failure("IoError", "file_create"), fs, inodes)
          ELSE LET c == FileCreate(fs, inodes, st[p].output_path)
               IN  Goes(p, IF call[p].op = "diff_optimized" THEN "bsdiff_diff" ELSE "write_all",
                        [st[p] EXCEPT !.writer = c.fd, !.offset = 0], c.fs, c.inodes)
    /\ UNCHANGED <<call, pre, prev, quota, mode>>

\* bsdiff::diff(&old_mmap[..], &new_mmap[..], &mut encoder)?  The encoder's
\* output goes through the BufWriter: of the stream Z some first j bytes have
\* reached the file when diff returns (never all: the frame is ended by
\* finish()).  A write that fails makes diff fail.
RunDiff(p) ==
    /\ pc[p] = "bsdiff_diff"
    /\ \E ro \in MapReads(inodes, st[p].old_mmap), rn \in MapReads(inodes, st[p].new_mmap) :
          IF ~(ro.ok /\ rn.ok)
          THEN Returns(p, Crash("SIGBUS", "bsdiff_diff"), fs, inodes)
          ELSE LET Z == ZstdEncode(call[p].level, BsDiff(ro.val, rn.val))
               IN  \E j \in 0..(Len(Z) - 1), io \in IoOutcomes :
                      LET ino == WriteAt(inodes, st[p].writer, st[p].offset, Take(Z, j))
                          l == [st[p] EXCEPT !.old_bytes = ro.val, !.new_bytes = rn.val,
                                             !.offset = @ + j, !.stream = Drop(Z, j)]
                      IN  IF io = "ok" THEN Goes(p, "encoder_finish", l, fs, ino)
                          ELSE /\ Returns(p, Failure("IoError", "bsdiff_diff"), fs, ino)
    /\ UNCHANGED <<call, pre, prev, quota, mode>>

\* encoder.finish()?: the end of the frame is handed to the BufWriter, which
\* writes some j more bytes through; a write that fails makes finish fail.
EncoderFinish(p) ==
    /\ pc[p] = "encoder_finish"
    /\ \E j \in 0..Len(st[p].stream), io \in IoOutcomes :
          LET ino == WriteAt(inodes, st[p].writer, st[p].offset, Take(st[p].stream, j))
              l == [st[p] EXCEPT !.offset = @ + j, !.stream = Drop(@, j)]
          IN  IF io = "ok" THEN Goes(p, "drop_writer", l, fs, ino)
              ELSE /\ j < Len(st[p].stream)
                   /\ Returns(p, Failure("IoError", "encoder_finish"), fs, ino)
    /\ UNCHANGED <<call, pre, prev, quota, mode>>

\* The BufWriter that finish() returned is a temporary: it is dropped at the
\* end of the statement, and its Drop writes what the buffer holds and
\* ignores the result.  j < Len(stream) is a write that failed.
DropWriter(p) ==
    /\ pc[p] = "drop_writer"
    /\ \E j \in 0..Len(st[p].stream) :
          Goes(p, "finalize_output",
               [st[p] EXCEPT !.writer = 0, !.offset = 0, !.stream = <<>>], fs,
               WriteAt(inodes, st[p].writer, st[p].offset, Take(st[p].stream, j)))
    /\ UNCHANGED <<call, pre, prev, quota, mode>>

\* finalize_output followed by a cleanup: the staged file is removed when the
\* rename fails.
FinalizeOutput_removes_staged(p) ==
    /\ pc[p] = "finalize_output"
    /\ LET r == finalize_output(fs, st[p].output_path, FinalPath(call[p]))
           left == [q \in (DOMAIN fs) \ {st[p].output_path} |-> fs[q]]
       IN  IF r.ok THEN Returns(p, Success(NoVal), r.fs, inodes)
           ELSE Returns(p, Failure("IoError", "finalize_output"), left, inodes)
    /\ UNCHANGED <<call, pre, prev, quota, mode>>

\* Self::finalize_output(&output_path, final)
FinalizeOutput(p) ==
    /\ pc[p] = "finalize_output"
    /\ LET r == finalize_output(fs, st[p].output_path, FinalPath(call[p]))
       IN  IF r.ok THEN Returns(p, Success(NoVal), r.fs, inodes)
           ELSE Returns(p, Failure("IoError", "finalize_output"), fs, inodes)
    /\ UNCHANGED <<call, pre, prev, quota, mode>>

\* BsdiffRust::validate_patch_files: [ok, err]
validate_patch_files(f, old_file, patch_file) ==
    IF ~Exists(f, old_file) THEN Err("NotFound")
    ELSE IF ~Exists(f, patch_file) THEN Err("NotFound")
    ELSE Ok(<<>>)

\* patch_optimized: Self::validate_patch_files(old_file, patch_file)?
ValidatePatchFiles(p) ==
    /\ pc[p] = "validate_patch_files"
    /\ LET r == validate_patch_files(fs, call[p].old, call[p].patch)
       IN  IF r.ok THEN Goes(p, "create_single_memory_map", st[p], fs, inodes)
           ELSE Returns(p, Failure(r.err, "validate_patch_files"), fs, inodes)
    /\ UNCHANGED <<call, pre, prev, quota, mode>>

\* create_single_memory_map followed at once by File::create of new_file.
CreateSingleMemoryMap_then_output(p) ==
    /\ pc[p] = "create_single_memory_map"
    /\ \E io \in IoOutcomes :
          LET o == OpenAndMap(fs, inodes, call[p].old, io)
              c == FileCreate(fs, inodes, call[p].new)
          IN  IF o.ok
              THEN Goes(p, "decode_and_patch", [st[p] EXCEPT !.old_mmap = o.val],
                        c.fs, c.inodes)
              ELSE Returns(p, Failure(o.err, "create_single_memory_map"), fs, inodes)
    /\ UNCHANGED <<call, pre, prev, quota, mode>>

\* BsdiffRust::create_single_memory_map
CreateSingleMemoryMap(p) ==
    /\ pc[p] = "create_single_memory_map"
    /\ \E io \in IoOutcomes :
          LET o == OpenAndMap(fs, inodes, call[p].old, io)
          IN  IF o.ok
              THEN Goes(p, "decode_and_patch", [st[p] EXCEPT !.old_mmap = o.val], fs, inodes)
              ELSE Returns(p, Failure(o.err, "create_single_memory_map"), fs, inodes)
    /\ UNCHANGED <<call, pre, prev, quota, mode>>

\* File::open(path) and reading it to its end: [ok, val, err].  A directory
\* opens, and reading it fails.
ReadFile(f, ino, path) ==
    LET ent == Lookup(f, path)
    IN  IF ent.kind = "none" THEN Err("NotFound")
        ELSE IF ent.kind = "dir" THEN Err("IoError")
        ELSE Ok(Contents(ino[ent.ino]))

\* BsdiffRust::decode_and_patch, the patch file read: the patch is decoded by
\* a ZstdDecoder into bsdiff::patch, which builds new_data.
decode_and_patch(old_data, patch_bytes) ==
    LET d == ZstdDecode(patch_bytes)
    IN  IF d.ok THEN BsPatch(old_data, d.val) ELSE d

\* patch_optimized: Self::decode_and_patch(&old_mmap, patch_file)?
DecodeAndPatch(p) ==
    /\ pc[p] = "decode_and_patch"
    /\ LET pf == ReadFile(fs, inodes, call[p].patch)
       IN  IF ~pf.ok
           THEN Returns(p, Failure(pf.err, "decode_and_patch"), fs, inodes)
           ELSE \E ro \in MapReads(inodes, st[p].old_mmap) :
                   IF ~ro.ok
                   THEN Returns(p, Crash("SIGBUS", "decode_and_patch"), fs, inodes)
                   ELSE LET r == decode_and_patch(ro.val, pf.val)
                        IN  IF r.ok
                            THEN Goes(p, "get_optimal_output_path",
                                      [st[p] EXCEPT !.old_bytes = ro.val, !.new_bytes = pf.val,
                                                    !.new_data = r.val], fs, inodes)
                            ELSE Returns(p, Failure(r.err, "decode_and_patch"), fs, inodes)
    /\ UNCHANGED <<call, pre, prev, quota, mode>>

\* write_patched_data deleting its staged file when the write fails.
WriteAll_cleans_up(p) ==
    /\ pc[p] = "write_all"
    /\ \E j \in 0..Len(st[p].new_data) :
          LET ino == WriteAt(inodes, st[p].writer, st[p].offset, Take(st[p].new_data, j))
              left == [q \in (DOMAIN fs) \ {st[p].output_path} |-> fs[q]]
          IN  IF j = Len(st[p].new_data)
              THEN Goes(p, "finalize_output", [st[p] EXCEPT !.offset = @ + j], fs, ino)
              ELSE Returns(p, Failure("IoError", "write_all"), left, ino)
    /\ UNCHANGED <<call, pre, prev, quota, mode>>

\* write_patched_data: writer.write_all(data)?; writer.flush()?;  Of the data
\* some first j bytes reach the file; j < Len(data) is a write that failed,
\* and the failure is returned.
WriteAll(p) ==
    /\ pc[p] = "write_all"
    /\ \E j \in 0..Len(st[p].new_data) :
          LET ino == WriteAt(inodes, st[p].writer, st[p].offset, Take(st[p].new_data, j))
          IN  IF j = Len(st[p].new_data)
              THEN Goes(p, "finalize_output", [st[p] EXCEPT !.offset = @ + j], fs, ino)
              ELSE Returns(p, Failure("IoError", "write_all"), fs, ino)
    /\ UNCHANGED <<call, pre, prev, quota, mode>>

\* utils::verify_patch: the result of the call.  The old file and the new file
\* are read whole, then the patch file is opened and decoded into bsdiff::patch,
\* and the patched bytes are compared with the new file's.
verify_patch(f, ino, old_file, new_file, patch_file) ==
    LET old_data == ReadFile(f, ino, old_file)
        new_data == ReadFile(f, ino, new_file)
        patch == ReadFile(f, ino, patch_file)
        decoded == ZstdDecode(patch.val)
        patched_data == BsPatch(old_data.val, decoded.val)
    IN  IF ~old_data.ok THEN Failure(old_data.err, "verify_patch")
        ELSE IF ~new_data.ok THEN Failure(new_data.err, "verify_patch")
        ELSE IF ~patch.ok THEN Failure(patch.err, "verify_patch")
        ELSE IF ~decoded.ok THEN Failure(decoded.err, "verify_patch")
        ELSE IF ~patched_data.ok THEN Failure(patched_data.err, "verify_patch")
        ELSE Success([NoVal EXCEPT !.flag = (patched_data.val = new_data.val)])

\* verify_patch creating the expected file as apply_delta creates its output.
VerifyPatch_creates_output(p) ==
    /\ pc[p] = "verify_patch"
    /\ LET c == FileCreate(fs, inodes, call[p].new)
       IN  Returns(p, verify_patch(fs, inodes, call[p].old, call[p].new, call[p].patch),
                   c.fs, c.inodes)
    /\ UNCHANGED <<call, pre, prev, quota, mode>>

\* utils::verify_patch, the call
VerifyPatch(p) ==
    /\ pc[p] = "verify_patch"
    /\ Returns(p, verify_patch(fs, inodes, call[p].old, call[p].new, call[p].patch),
               fs, inodes)
    /\ UNCHANGED <<call, pre, prev, quota, mode>>

\* utils::get_file_size: std::fs::metadata(path)?.len(): [ok, val, err]
get_file_size(f, ino, path) ==
    LET ent == Lookup(f, path)
    IN  IF ent.kind = "none" THEN Err("NotFound")
        ELSE IF ent.kind = "dir" THEN Ok(DirLen)
        ELSE Ok(FileLen(ino[ent.ino]))

\* utils::get_patch_info
get_patch_info(f, ino, patch_file) ==
    LET size == get_file_size(f, ino, patch_file)
    IN  IF ~size.ok THEN Failure(size.err, "get_patch_info")
        ELSE Success([NoVal EXCEPT !.size = size.val, !.compressed = TRUE])

GetPatchInfo(p) ==
    /\ pc[p] = "get_patch_info"
    /\ Returns(p, get_patch_info(fs, inodes, call[p].patch), fs, inodes)
    /\ UNCHANGED <<call, pre, prev, quota, mode>>

\* check_file_access without its existence test: is_file() is asked first.
check_file_access_is_file_first(f, file_path, io) ==
    LET ent == Lookup(f, file_path)
    IN  IF ent.kind # "file" THEN Failure("NotAFile", "check_file_access")
        ELSE IF io # "ok" THEN Failure("IoError", "check_file_access")
        ELSE Success(NoVal)

\* utils::check_file_access: exists, is a file, opens for reading.
check_file_access(f, file_path, io) ==
    LET ent == Lookup(f, file_path)
    IN  IF ent.kind = "none" THEN Failure("NotFound", "check_file_access")
        ELSE IF ent.kind # "file" THEN Failure("NotAFile", "check_file_access")
        ELSE IF io # "ok" THEN Failure("IoError", "check_file_access")
        ELSE Success(NoVal)

CheckFileAccess(p) ==
    /\ pc[p] = "check_file_access"
    /\ \E io \in IoOutcomes :
          Returns(p, check_file_access(fs, call[p].old, io), fs, inodes)
    /\ UNCHANGED <<call, pre, prev, quota, mode>>

\* u64 arithmetic is modulo U64Mod.
U64Mod == Pow2(SizeBits)

\* How the crate was built: with overflow checks (an overflowing + panics)
\* or without (it wraps).
Builds == {"debug", "release"}

\* get_compression_ratio, lines 78-83: total_size and ratio of three sizes.
\* The f64 ratio (patch_size / total_size) * 100.0 is kept as the exact
\* fraction <<numerator, denominator>>.
compression_ratio(old_size, new_size, patch_size, build) ==
    IF old_size + new_size >= U64Mod /\ build = "debug"
    THEN Crash("overflow", "get_compression_ratio")
    ELSE LET total_size == (old_size + new_size) % U64Mod
             ratio == IF total_size > 0 THEN <<patch_size * 100, total_size>> ELSE <<0, 1>>
         IN  Success([NoVal EXCEPT !.old_size = old_size, !.new_size = new_size,
                                   !.patch_size = patch_size, !.ratio = ratio])

\* utils::get_compression_ratio
get_compression_ratio(f, ino, old_file, new_file, patch_file, build) ==
    LET old_size == get_file_size(f, ino, old_file)
        new_size == get_file_size(f, ino, new_file)
        patch_size == get_file_size(f, ino, patch_file)
    IN  IF ~old_size.ok THEN Failure(old_size.err, "get_compression_ratio")
        ELSE IF ~new_size.ok THEN Failure(new_size.err, "get_compression_ratio")
        ELSE IF ~patch_size.ok THEN Failure(patch_size.err, "get_compression_ratio")
        ELSE compression_ratio(old_size.val, new_size.val, patch_size.val, build)

GetCompressionRatio(p) ==
    /\ pc[p] = "get_compression_ratio"
    /\ \E build \in Builds :
          Returns(p, get_compression_ratio(fs, inodes, call[p].old, call[p].new,
                                           call[p].patch, build), fs, inodes)
    /\ UNCHANGED <<call, pre, prev, quota, mode>>

\* The caller has the result; the next call may start.
Return(p) ==
    /\ pc[p] \in {"done", "failed", "crashed"}
    /\ prev' = IF mode = "seq" /\ pc[p] = "done" /\ call[p].op = "diff_optimized"
               THEN [call |-> call[p], oldb |-> st[p].old_bytes, newb |-> st[p].new_bytes,
                     out |-> ViewAt(View(fs, inodes), call[p].patch)]
               ELSE NoPrev
    /\ pc' = [pc EXCEPT ![p] = "idle"]
    /\ call' = [call EXCEPT ![p] = NoCall]
    /\ st' = [st EXCEPT ![p] = InitLocals]
    /\ result' = [result EXCEPT ![p] = NoResult]
    /\ pre' = [pre EXCEPT ![p] = <<>>]
    /\ UNCHANGED <<fs, inodes, quota, mode>>

Next ==
    \E p \in Procs :
        \/ Call(p)
        \/ Diff(p)
        \/ Patch(p)
        \/ ValidateFiles(p)
        \/ CreateMemoryMaps(p)
        \/ GetOptimalOutputPath(p)
        \/ CreateOutput(p)
        \/ RunDiff(p)
        \/ EncoderFinish(p)
        \/ DropWriter(p)
        \/ FinalizeOutput(p)
        \/ ValidatePatchFiles(p)
        \/ CreateSingleMemoryMap(p)
        \/ DecodeAndPatch(p)
        \/ WriteAll(p)
        \/ VerifyPatch(p)
        \/ GetPatchInfo(p)
        \/ GetCompressionRatio(p)
        \/ CheckFileAccess(p)
        \/ Return(p)

\* One caller, one call after the other.
Spec == Init /\ [][Next]_vars

\* Two callers at once, each with one call on the files of its own directory;
\* d/q is a patch made earlier from d/o and d/n.
InitConc ==
    /\ mode = "conc"
    /\ \E O \in Inputs, N \in {[i \in 1..MaxLen |-> 1]} :
          /\ fs = (aO :> FileEnt(1)) @@ (aN :> FileEnt(2)) @@ (Path("a", "q") :> FileEnt(3))
                  @@ (bO :> FileEnt(4)) @@ (bN :> FileEnt(5)) @@ (Path("b", "q") :> FileEnt(6))
          /\ inodes = (1 :> Inode(O)) @@ (2 :> Inode(N))
                      @@ (3 :> Inode(ZstdEncode(DefaultConfig.compression_level, BsDiff(O, N))))
                      @@ (4 :> Inode(N)) @@ (5 :> Inode(O))
                      @@ (6 :> Inode(ZstdEncode(DefaultConfig.compression_level, BsDiff(N, O))))
    /\ pc = [p \in Procs |-> "idle"]
    /\ call = [p \in Procs |-> NoCall]
    /\ st = [p \in Procs |-> InitLocals]
    /\ result = [p \in Procs |-> NoResult]
    /\ pre = [p \in Procs |-> <<>>]
    /\ prev = NoPrev
    /\ quota = [p \in Procs |-> 1]

SpecConc == InitConc /\ [][Next]_vars

\* get_compression_ratio over the sizes a u64 can hold: the three files are
\* sparse files of the sizes drawn.
SizeSamples == {0, 1, U64Mod \div 2, U64Mod - 1}

InitRatio ==
    /\ mode = "ratio"
    /\ \E o \in SizeSamples, n \in SizeSamples, s \in SizeSamples :
          /\ fs = (aO :> FileEnt(1)) @@ (aN :> FileEnt(2)) @@ (aP :> FileEnt(3))
          /\ inodes = (1 :> Sparse(o)) @@ (2 :> Sparse(n)) @@ (3 :> Sparse(s))
    /\ pc = [p \in Procs |-> "idle"]
    /\ call = [p \in Procs |-> NoCall]
    /\ st = [p \in Procs |-> InitLocals]
    /\ result = [p \in Procs |-> NoResult]
    /\ pre = [p \in Procs |-> <<>>]
    /\ prev = NoPrev
    /\ quota = [p \in Procs |-> IF p = 1 THEN 1 ELSE 0]

NextRatio == \E p \in Procs : Call(p) \/ GetCompressionRatio(p) \/ Return(p)

SpecRatio == InitRatio /\ [][NextRatio]_vars

(***************************************************************************)
(* The properties.                                                         *)
(***************************************************************************)
Finished(p) == pc[p] \in {"done", "failed", "crashed"}
Now == View(fs, inodes)
AFile(data) == [kind |-> "file", data |-> data, hole |-> 0]

\* The complete output of the pipeline call p runs, from what it has read.
CompleteOutput(p) ==
    IF call[p].op = "diff_optimized"
    THEN ZstdEncode(call[p].level, BsDiff(st[p].old_bytes, st[p].new_bytes))
    ELSE st[p].new_data

\* The call before was a produce_delta that returned Ok, with the same old
\* path and patch path as the call p runs.
AfterDiffOf(p) ==
    /\ prev.call.op = "diff_optimized"
    /\ prev.call.old = call[p].old
    /\ prev.call.patch = call[p].patch

\* C1: round trip.  When produce_delta(O, N, P) and then apply_delta(O, OUT, P)
\* both return Ok, the file OUT holds exactly the bytes N.
C1_RoundTrip ==
    \A p \in Procs :
        (/\ pc[p] = "done"
         /\ call[p].op = "patch_optimized"
         /\ AfterDiffOf(p)
         /\ st[p].old_bytes = prev.oldb)
        => ViewAt(Now, call[p].new) = AFile(prev.newb)

C1_Witness ==
    \E p \in Procs :
        /\ pc[p] = "done"
        /\ call[p].op = "patch_optimized"
        /\ AfterDiffOf(p)
        /\ st[p].old_bytes = prev.oldb
        /\ prev.oldb # <<>>
        /\ prev.newb # <<>>
        /\ prev.newb # prev.oldb

\* C2: when produce_delta returns Ok, the patch file holds the complete
\* compressed stream, whose content is exactly compute_delta(old, new).
C2_PatchComplete ==
    \A p \in Procs :
        (pc[p] = "done" /\ call[p].op = "diff_optimized")
        => /\ ViewAt(Now, call[p].patch) = AFile(CompleteOutput(p))
           /\ ZstdDecode(FileData(call[p].patch)) = Ok(BsDiff(st[p].old_bytes, st[p].new_bytes))

\* C3: when produce_delta fails before finalize, the patch path is as it was
\* when the call started, whatever the config.
C3_FailureLeavesPatch ==
    \A p \in Procs :
        (/\ pc[p] = "failed"
         /\ call[p].op = "diff_optimized"
         /\ result[p].at # "finalize_output")
        => ViewAt(Now, call[p].patch) = ViewAt(pre[p], call[p].patch)

\* C4: in every state of a produce_delta or apply_delta, the final path holds
\* what it held when the call started or the complete new output.
C4_NoPartialOutput ==
    \A p \in Procs :
        (pc[p] # "idle" /\ call[p].op \in {"diff_optimized", "patch_optimized"})
        => \/ ViewAt(Now, FinalPath(call[p])) = ViewAt(pre[p], FinalPath(call[p]))
           \/ ViewAt(Now, FinalPath(call[p])) = AFile(CompleteOutput(p))

IsPrefix(s, t) == Len(s) <= Len(t) /\ s = Take(t, Len(s))

\* C5: two calls at once on pairwise different paths never have the same
\* staged path open for writing, and a call that returns Ok leaves at its
\* final path the output of its own inputs (cut short at most by a failed
\* write of its own).
C5_DisjointCallsApart ==
    \A p \in Procs, q \in Procs :
        (/\ p # q
         /\ {call[p].old, call[p].new, call[p].patch}
              \cap {call[q].old, call[q].new, call[q].patch} \subseteq {NoPath}
         /\ call[p].op \in {"diff_optimized", "patch_optimized"}
         /\ call[q].op \in {"diff_optimized", "patch_optimized"})
        => /\ (st[p].writer # 0 /\ st[q].writer # 0)
                => st[p].output_path # st[q].output_path
           /\ pc[p] = "done"
                => /\ ViewAt(Now, FinalPath(call[p])).kind = "file"
                   /\ IsPrefix(FileData(FinalPath(call[p])), CompleteOutput(p))

\* An input path of the call did not exist when the call started.
MissingInput(p) ==
    LET gone(path) == ViewAt(pre[p], path).kind = "none"
        c == call[p]
    IN  CASE c.op = "diff_optimized" -> gone(c.old) \/ gone(c.new)
          [] c.op = "patch_optimized" -> gone(c.old) \/ gone(c.patch)
          [] c.op \in {"verify_patch", "get_compression_ratio"} ->
                gone(c.old) \/ gone(c.new) \/ gone(c.patch)
          [] c.op = "get_patch_info" -> gone(c.patch)
          [] OTHER -> FALSE

\* C6: an operation called with an input path that does not exist fails with
\* NotFound and leaves the filesystem as it was.
C6_MissingInput ==
    \A p \in Procs :
        (Finished(p) /\ MissingInput(p))
        => /\ result[p].kind = "err"
           /\ result[p].err = "NotFound"
           /\ Now = pre[p]

\* C7: verify returns true exactly when apply_delta's decoding of the patch
\* against old gives the bytes of the expected file; and for the patch a
\* produce_delta(O, N) left, verify returns Ok(expected = N).
C7_VerifyConsistent ==
    \A p \in Procs :
        (Finished(p) /\ call[p].op = "verify_patch")
        => /\ (result[p].kind = "ok" /\ result[p].val.flag)
                <=> /\ ViewAt(Now, call[p].old).kind = "file"
                    /\ ViewAt(Now, call[p].new).kind = "file"
                    /\ ViewAt(Now, call[p].patch).kind = "file"
                    /\ decode_and_patch(FileData(call[p].old), FileData(call[p].patch))
                         = Ok(FileData(call[p].new))
           /\ (/\ AfterDiffOf(p)
               /\ ViewAt(Now, call[p].old) = AFile(prev.oldb)
               /\ ViewAt(Now, call[p].new).kind = "file")
                => result[p] = Success([NoVal EXCEPT !.flag = (FileData(call[p].new) = prev.newb)])

\* C8: verify writes nothing: the filesystem after it is the one before it.
C8_VerifyReadOnly ==
    \A p \in Procs :
        (Finished(p) /\ call[p].op = "verify_patch") => Now = pre[p]

C8_Witness ==
    \E p \in Procs :
        /\ pc[p] = "done"
        /\ call[p].op = "verify_patch"
        /\ result[p].val.flag
        /\ FileData(call[p].new) # <<>>

\* C9: a produce_delta that returns Ok right after a produce_delta that
\* returned Ok with the same arguments, config and input bytes leaves the
\* patch file byte-identical to the one the first left.
C9_RepeatIdentical ==
    \A p \in Procs :
        (/\ pc[p] = "done"
         /\ call[p].op = "diff_optimized"
         /\ prev.call = call[p]
         /\ prev.oldb = st[p].old_bytes
         /\ prev.newb = st[p].new_bytes)
        => ViewAt(Now, call[p].patch) = prev.out

InputPaths(c) ==
    CASE c.op = "diff_optimized" -> {c.old, c.new}
      [] c.op = "patch_optimized" -> {c.old, c.patch}
      [] c.op = "verify_patch" -> {c.old, c.new, c.patch}
      [] OTHER -> {}

\* C11: a produce_delta or apply_delta whose inputs all exist and whose old or
\* new path is a directory fails with NotAFile, and no output file has been
\* created; with a missing input and no directory it fails with NotFound.
C11_OpenFailures ==
    \A p \in Procs :
        (/\ Finished(p)
         /\ call[p].op \in {"diff_optimized", "patch_optimized"})
        => LET kinds == {ViewAt(pre[p], q).kind : q \in InputPaths(call[p])}
           IN  /\ ("dir" \in kinds /\ "none" \notin kinds)
                    => /\ result[p].kind = "err"
                       /\ result[p].err = "NotAFile"
                       /\ Now = pre[p]
               /\ ("none" \in kinds /\ "dir" \notin kinds)
                    => /\ result[p].kind = "err"
                       /\ result[p].err = "NotFound"
                       /\ Now = pre[p]

\* C12: no failed write is swallowed: an operation goes on to the rename only
\* when every byte of its output has reached the staged file, and when it
\* returns Ok the final path holds that complete output.
C12_NoSwallowedFailure ==
    \A p \in Procs :
        /\ pc[p] = "finalize_output"
              => ViewAt(Now, st[p].output_path) = AFile(CompleteOutput(p))
        /\ (pc[p] = "done" /\ call[p].op \in {"diff_optimized", "patch_optimized"})
              => FileData(FinalPath(call[p])) = CompleteOutput(p)

\* C13: check_file_access returns Ok only for a regular file; it fails with
\* NotFound for a path that does not exist, with NotAFile for one that exists
\* and is not a file, with an I/O error when the open fails; the filesystem
\* is as it was.
C13_CheckAccess ==
    \A p \in Procs :
        (Finished(p) /\ call[p].op = "check_file_access")
        => LET kind == ViewAt(pre[p], call[p].old).kind
           IN  /\ kind = "none" => (result[p].kind = "err" /\ result[p].err = "NotFound")
               /\ kind = "dir" => (result[p].kind = "err" /\ result[p].err = "NotAFile")
               /\ kind = "file" => \/ result[p].kind = "ok"
                                   \/ (result[p].kind = "err" /\ result[p].err = "IoError")
               /\ Now = pre[p]

C13_Witness ==
    \E p \in Procs :
        /\ Finished(p)
        /\ call[p].op = "check_file_access"
        /\ ViewAt(pre[p], call[p].old).kind = "none"
        /\ result[p].err = "NotFound"

\* C14: when the rename of finalize_output fails, the operation returns an
\* I/O error, the final path is as it was when the call started, and the
\* staged file is still at the staged path.
C14_RenameFailure ==
    \A p \in Procs :
        (pc[p] = "failed" /\ result[p].at = "finalize_output")
        => /\ result[p].err = "IoError"
           /\ st[p].output_path # FinalPath(call[p])
           /\ ViewAt(Now, FinalPath(call[p])) = ViewAt(pre[p], FinalPath(call[p]))
           /\ ViewAt(Now, st[p].output_path).kind = "file"

C14_Witness ==
    \E p \in Procs :
        /\ pc[p] = "failed"
        /\ result[p].at = "finalize_output"
        /\ Device(st[p].output_path.dir) # Device(FinalPath(call[p]).dir)
        /\ FileData(st[p].output_path) # <<>>

\* C15: the staged path is the final path when use_fast_temp is false, and
\* the fast temp dir joined with "bsdiff_" and the base name of the final
\* path when it is true; the call fails exactly when use_fast_temp is true
\* and the final path has no base name.
C15_StagedPath ==
    \A p \in Procs :
        LET final == FinalPath(call[p])
        IN  /\ pc[p] = "file_create"
                 => /\ call[p].fast => /\ final.name # ".."
                                       /\ st[p].output_path.dir = get_fast_temp_dir
                                       /\ st[p].output_path.name = "bsdiff_" \o final.name
                    /\ ~call[p].fast => st[p].output_path = final
            /\ (Finished(p) /\ result[p].at = "get_optimal_output_path")
                 => (result[p].kind = "err" /\ call[p].fast /\ final.name = "..")

C15_Witness ==
    \E p \in Procs :
        /\ pc[p] = "file_create"
        /\ call[p].fast
        /\ FinalPath(call[p]) = bP
        /\ st[p].output_path = tP

\* C16: the step of finalize_output that returns Ok changes nothing when the
\* staged path is the final path, and otherwise is one rename: afterwards
\* nothing is at the staged path, the final path holds what the staged file
\* held, and every other path is as before.
C16_FinalizeRenamesOnce ==
    [][\A p \in Procs :
          (pc[p] = "finalize_output" /\ pc'[p] = "done")
          => LET staged == st[p].output_path
                 final == FinalPath(call[p])
                 before == View(fs, inodes)
                 after == View(fs', inodes')
             IN  IF staged = final
                 THEN after = before
                 ELSE /\ ViewAt(after, staged).kind = "none"
                      /\ ViewAt(after, final) = ViewAt(before, staged)
                      /\ \A q \in ((DOMAIN before) \cup (DOMAIN after)) \ {staged, final} :
                            ViewAt(after, q) = ViewAt(before, q)]_vars

C16_Witness ==
    \E p \in Procs :
        /\ pc[p] = "done"
        /\ call[p].op = "patch_optimized"
        /\ st[p].output_path # FinalPath(call[p])
        /\ st[p].new_data # <<>>
        /\ ViewAt(Now, st[p].output_path).kind = "none"
        /\ ViewAt(Now, FinalPath(call[p])) = AFile(st[p].new_data)

\* C17: when produce_delta or apply_delta fails after File::create of its
\* staged file, the staged file is still at the staged path.
C17_StagedFileLeft ==
    \A p \in Procs :
        (/\ pc[p] = "failed"
         /\ call[p].op \in {"diff_optimized", "patch_optimized"}
         /\ result[p].at \in {"bsdiff_diff", "encoder_finish", "write_all", "finalize_output"})
        => ViewAt(Now, st[p].output_path).kind = "file"

C17_Witness ==
    \E p \in Procs :
        /\ pc[p] = "failed"
        /\ call[p].op = "patch_optimized"
        /\ result[p].at = "write_all"
        /\ call[p].fast
        /\ ViewAt(Now, st[p].output_path).kind = "file"

\* C18: until apply_delta has decoded the whole patch the filesystem is as it
\* was when the call started, and so it is when validation, the map of the
\* old file or the decoding fails.
C18_NoOutputBeforeDecode ==
    \A p \in Procs :
        call[p].op = "patch_optimized"
        => /\ pc[p] \in {"validate_patch_files", "create_single_memory_map", "decode_and_patch"}
                => Now = pre[p]
           /\ (/\ pc[p] \in {"failed", "crashed"}
               /\ result[p].at \in {"validate_patch_files", "create_single_memory_map",
                                    "decode_and_patch"})
                => Now = pre[p]

C18_Witness ==
    \E p \in Procs :
        /\ pc[p] = "failed"
        /\ call[p].op = "patch_optimized"
        /\ result[p].at = "decode_and_patch"
        /\ ViewAt(Now, call[p].patch).kind = "file"
        /\ ViewAt(Now, call[p].new).kind = "file"
        /\ FileData(call[p].new) # <<>>

\* C19: an operation whose input paths all differ from its output path leaves
\* the content of each of its input files as it was when the call started.
C19_InputsNotMutated ==
    \A p \in Procs :
        (/\ Finished(p)
         /\ call[p].op \in {"diff_optimized", "patch_optimized", "verify_patch"}
         /\ (call[p].op = "verify_patch" \/ FinalPath(call[p]) \notin InputPaths(call[p])))
        => \A q \in InputPaths(call[p]) : ViewAt(Now, q) = ViewAt(pre[p], q)

\* C20: diff and patch start diff_optimized and patch_optimized on their own
\* arguments with compression_level 3 and use_fast_temp_dir true, and change
\* nothing else: the state is the one in which that configured call starts.
C20_DefaultEntryPoints ==
    [][\A p \in Procs :
          (pc[p] \in {"diff", "patch"} /\ pc'[p] # pc[p])
          => LET op == IF pc[p] = "diff" THEN "diff_optimized" ELSE "patch_optimized"
                 c == Invoke(op, call[p].old, call[p].new, call[p].patch, 3, TRUE)
             IN  /\ pc'[p] = Entry(op)
                 /\ [k \in DOMAIN c |-> call'[p][k]] = c
                 /\ UNCHANGED <<fs, inodes, st, result, pre, prev>>]_vars

C20_Witness ==
    \E p \in Procs :
        /\ pc[p] = "done"
        /\ "via" \in DOMAIN call[p]
        /\ call[p].via = "diff"
        /\ ViewAt(Now, call[p].patch).kind = "file"

====
